---- MODULE Spec2Model ----
(***************************************************************************)
(* Model of src/app/app.py: a Flask application with one route, GET /,     *)
(* whose handler hello() calls ssm_secret() and concatenates the result    *)
(* with the SECRET environment variable.                                   *)
(*                                                                         *)
(* Strings are sequences of one-character strings.  os.environ is a        *)
(* function whose domain is the set of variables that are set, so that a   *)
(* read of an unset variable (KeyError) is a read outside the domain.      *)
(* The parameter store is the remote collaborator behind                   *)
(* client.get_parameter: the parameters it holds and the condition of the  *)
(* service (reachable, access denied, transport error).                    *)
(*                                                                         *)
(* A request blocks in exactly one place, the call of                      *)
(* client.get_parameter (line 11); everything before and after it runs     *)
(* without touching anything another request can write, so a request is    *)
(* modelled by two steps: up to the call, and from its reply to the end.   *)
(***************************************************************************)
EXTENDS Integers, Sequences, FiniteSets, TLC

\* ---------------------------------------------------------------- bounds
MaxLen == 2       \* longest value of SECRET_SDK / longest argument string
NReqs == 2        \* number of requests (or resolver calls) in one behaviour

Chars == {"s", "S"}
Strings(n) == UNION {[1..k -> Chars] : k \in 0..n}

Values == Strings(MaxLen)
Prefixes == {<<>>, <<"s">>, <<"s", "S">>}
PlainSecrets == {<<>>, <<"s">>}
Names == Values \ {<<>>}          \* the service accepts no empty Name
ParamValues == {<<"v">>, <<"w">>}
Faults == {"none", "AccessDenied", "TransportError"}

Reqs == 1..NReqs

\* ------------------------------------------------------------ environment
EnvNames == {"SECRET_SDK", "SECRET_SDK_PREFIX", "SECRET"}

EnvRange(k) ==
    CASE k = "SECRET_SDK" -> Values
      [] k = "SECRET_SDK_PREFIX" -> Prefixes
      [] k = "SECRET" -> PlainSecrets

EnvsOver(D) ==
    {e \in [D -> Values \cup Prefixes \cup PlainSecrets] :
        \A k \in D : e[k] \in EnvRange(k)}

\* every environment of the process: each variable set or not
Envs == UNION {EnvsOver(D) : D \in SUBSET EnvNames}

\* ssm_secret reads SECRET_SDK and nothing else (lines 10, 12, 17)
ResolverEnvs == UNION {EnvsOver(D) : D \in SUBSET {"SECRET_SDK"}}

\* ------------------------------------------------------------------ store
ParamDomains == {{}} \cup {{n} : n \in Names}
ParamMaps == UNION {[D -> ParamValues] : D \in ParamDomains}
Stores == {[params |-> f, fault |-> x] : f \in ParamMaps, x \in Faults}

\* what a SecureString reads as when decryption is not requested
Encrypted(value) == <<"*">> \o value

Reply(ok, value) == [ok |-> ok, Value |-> value]

\* client.get_parameter(Name=name, WithDecryption=flag) against the store
GetParameter(st, name, flag) ==
    IF st.fault # "none" THEN Reply(FALSE, <<>>)
    ELSE IF name \in DOMAIN st.params
         THEN Reply(TRUE, IF flag THEN st.params[name]
                                  ELSE Encrypted(st.params[name]))
         ELSE Reply(FALSE, <<>>)

\* a read that consumes the parameter it read
StoreAfterGet_Delete(st, name) ==
    [st EXCEPT !.params = [n \in (DOMAIN st.params) \ {name} |-> st.params[n]]]

\* get_parameter reads the store and leaves it as it was
StoreAfterGet(st, name) == st

\* ---------------------------------------------------------------- strings
Min(a, b) == IF a < b THEN a ELSE b

\* s[0:n]
SliceTo(s, n) == SubSeq(s, 1, Min(n, Len(s)))

\* s[n:]
SliceFrom(s, n) == IF n >= Len(s) THEN <<>> ELSE SubSeq(s, n + 1, Len(s))

Section1Lit ==
    <<"S", "D", "K", " ", "d", "e", "c", "r", "y", "p", "t", "e", "d", ":", " ">>

Section2Lit ==
    <<"S", "s", "n", "-", "e", "n", "v", " ",
      "d", "e", "c", "r", "y", "p", "t", "e", "d", ":", " ">>

\* --------------------------------------------------------------- outcomes
\* KeyError on os.environ is MissingConfiguration; an exception out of
\* client.get_parameter is LookupFailure.
Pending == [status |-> "pending", value |-> <<>>]
Returned(v) == [status |-> "returned", value |-> v]
Raised(err) == [status |-> err, value |-> <<>>]

\* how a function leaves its first step: it raised, it returned, or it is
\* inside client.get_parameter
StepDone(o) == [kind |-> "done", outcome |-> o, Name |-> <<>>, flag |-> FALSE]
StepCall(name, flag) ==
    [kind |-> "call", outcome |-> Pending, Name |-> name, flag |-> flag]

\* ------------------------------------------------------------- the program
\* ssm_secret(path, prefix) in environment e, up to its return or its call
\* of client.get_parameter.  boto3.client('ssm') (line 8) builds the client
\* object and calls nothing on the store.  path is not read by the body.
ssm_secret(e, path, prefix) ==
    LET prefix_len == Len(prefix) IN
    IF "SECRET_SDK" \notin DOMAIN e
    THEN StepDone(Raised("MissingConfiguration"))
    ELSE IF SliceTo(e["SECRET_SDK"], prefix_len) = prefix
         THEN StepCall(SliceFrom(e["SECRET_SDK"], prefix_len), TRUE)
         ELSE StepDone(Returned(e["SECRET_SDK"]))

\* the two sections put together in the other order
hello_sections_Swapped(e, secret) ==
    IF "SECRET" \notin DOMAIN e
    THEN Raised("MissingConfiguration")
    ELSE Returned((Section2Lit \o e["SECRET"]) \o (Section1Lit \o secret))

\* SECRET read with a default, as os.environ.get('SECRET', '') would
hello_sections_Default(e, secret) ==
    Returned((Section1Lit \o secret) \o
             (Section2Lit \o (IF "SECRET" \in DOMAIN e THEN e["SECRET"] ELSE <<>>)))

\* hello() from the return of ssm_secret on: section1, section2, the body
hello_sections(e, secret) ==
    LET section1 == Section1Lit \o secret IN
    IF "SECRET" \notin DOMAIN e
    THEN Raised("MissingConfiguration")
    ELSE LET section2 == Section2Lit \o e["SECRET"] IN
         Returned(section1 \o section2)

\* hello() in environment e, up to its return or the call of get_parameter
hello(e) ==
    IF "SECRET_SDK" \notin DOMAIN e \/ "SECRET_SDK_PREFIX" \notin DOMAIN e
    THEN StepDone(Raised("MissingConfiguration"))
    ELSE LET s == ssm_secret(e, e["SECRET_SDK"], e["SECRET_SDK_PREFIX"]) IN
         IF s.kind = "done" /\ s.outcome.status = "returned"
         THEN StepDone(hello_sections(e, s.outcome.value))
         ELSE s

\* a failed lookup caught, and the raw reference used in its place
AfterGetParameter_Fallback(f, e, reply) ==
    LET secret == IF reply.ok THEN reply.Value ELSE e["SECRET_SDK"] IN
    IF f = "hello" THEN hello_sections(e, secret) ELSE Returned(secret)

\* the rest of function f once client.get_parameter has replied
AfterGetParameter(f, e, reply) ==
    IF ~reply.ok
    THEN Raised("LookupFailure")
    ELSE LET secret == reply.Value IN
         IF f = "hello" THEN hello_sections(e, secret) ELSE Returned(secret)

\* ------------------------------------------------------------------ state
VARIABLES
    env,        \* process -> os.environ of that process
    store,      \* the remote parameter store
    proc,       \* request -> the process that serves it
    fn,         \* request -> the function it runs ("hello", "ssm_secret")
    args,       \* request -> <<path, prefix>> passed to ssm_secret, or <<>>
    pc,         \* request -> "ready", "get_parameter", "done"
    lookups,    \* request -> the get_parameter calls it has issued
    outcome     \* request -> what it returned or raised

vars == <<env, store, proc, fn, args, pc, lookups, outcome>>

Lookup(name, flag) == [Name |-> name, WithDecryption |-> flag, reply |-> "pending"]

\* request r takes its first step s
Enter(r, f, a, s) ==
    /\ fn' = [fn EXCEPT ![r] = f]
    /\ args' = [args EXCEPT ![r] = a]
    /\ pc' = [pc EXCEPT ![r] = IF s.kind = "call" THEN "get_parameter" ELSE "done"]
    /\ lookups' = [lookups EXCEPT ![r] =
                      IF s.kind = "call"
                      THEN Append(@, Lookup(s.Name, s.flag)) ELSE @]
    /\ outcome' = [outcome EXCEPT ![r] = s.outcome]
    /\ UNCHANGED <<env, store, proc>>

\* a request that finds a lookup in flight does not wait for its own: it
\* answers with the unresolved value
Hello_Coalesce(r) ==
    /\ pc[r] = "ready"
    /\ LET e == env[proc[r]]
           s == hello(e)
           busy == \E q \in Reqs \ {r} : pc[q] = "get_parameter"
       IN Enter(r, "hello",
                IF {"SECRET_SDK", "SECRET_SDK_PREFIX"} \subseteq DOMAIN e
                THEN <<e["SECRET_SDK"], e["SECRET_SDK_PREFIX"]>> ELSE <<>>,
                IF busy /\ s.kind = "call"
                THEN StepDone(hello_sections(e, e["SECRET_SDK"])) ELSE s)

\* GET / arrives and the handler runs to its end or to the remote call
Hello(r) ==
    /\ pc[r] = "ready"
    /\ LET e == env[proc[r]] IN
       Enter(r, "hello",
             IF {"SECRET_SDK", "SECRET_SDK_PREFIX"} \subseteq DOMAIN e
             THEN <<e["SECRET_SDK"], e["SECRET_SDK_PREFIX"]>> ELSE <<>>,
             hello(e))

\* ssm_secret(path, prefix) is applied to the arguments drawn for r
SsmSecret(r) ==
    /\ pc[r] = "ready"
    /\ args[r] # <<>>
    /\ Enter(r, "ssm_secret", args[r],
             ssm_secret(env[proc[r]], args[r][1], args[r][2]))

\* a failed lookup tried once more before the failure is raised
GetParameterReturn_Retry(r) ==
    /\ pc[r] = "get_parameter"
    /\ LET n == Len(lookups[r])
           call == lookups[r][n]
           reply == GetParameter(store, call.Name, call.WithDecryption)
       IN IF ~reply.ok /\ n < 2
          THEN /\ lookups' = [lookups EXCEPT ![r] =
                      Append([@ EXCEPT ![n].reply = "error"],
                             Lookup(call.Name, call.WithDecryption))]
               /\ UNCHANGED <<outcome, pc>>
          ELSE /\ lookups' = [lookups EXCEPT ![r][n].reply =
                                 IF reply.ok THEN "ok" ELSE "error"]
               /\ outcome' = [outcome EXCEPT ![r] =
                                 AfterGetParameter(fn[r], env[proc[r]], reply)]
               /\ pc' = [pc EXCEPT ![r] = "done"]
    /\ UNCHANGED <<env, store, proc, fn, args>>

\* the decrypted value kept in os.environ so that the next request needs no
\* lookup
GetParameterReturn_CacheInEnv(r) ==
    /\ pc[r] = "get_parameter"
    /\ LET n == Len(lookups[r])
           call == lookups[r][n]
           reply == GetParameter(store, call.Name, call.WithDecryption)
       IN /\ lookups' = [lookups EXCEPT ![r][n].reply =
                            IF reply.ok THEN "ok" ELSE "error"]
          /\ outcome' = [outcome EXCEPT ![r] =
                            AfterGetParameter(fn[r], env[proc[r]], reply)]
          /\ env' = IF reply.ok
                    THEN [env EXCEPT ![proc[r]]["SECRET_SDK"] = reply.Value]
                    ELSE env
    /\ pc' = [pc EXCEPT ![r] = "done"]
    /\ UNCHANGED <<store, proc, fn, args>>

\* client.get_parameter returns or raises, and the request runs to its end
GetParameterReturn(r) ==
    /\ pc[r] = "get_parameter"
    /\ LET n == Len(lookups[r])
           call == lookups[r][n]
           reply == GetParameter(store, call.Name, call.WithDecryption)
       IN /\ lookups' = [lookups EXCEPT ![r][n].reply =
                            IF reply.ok THEN "ok" ELSE "error"]
          /\ outcome' = [outcome EXCEPT ![r] =
                            AfterGetParameter(fn[r], env[proc[r]], reply)]
          /\ store' = StoreAfterGet(store, call.Name)
    /\ pc' = [pc EXCEPT ![r] = "done"]
    /\ UNCHANGED <<env, proc, fn, args>>

\* --------------------------------------------------------- specifications
InitRequests ==
    /\ pc = [r \in Reqs |-> "ready"]
    /\ fn = [r \in Reqs |-> "none"]
    /\ lookups = [r \in Reqs |-> <<>>]
    /\ outcome = [r \in Reqs |-> Pending]

\* the application: one process, its environment set before it starts
Init ==
    /\ env \in [{"task1"} -> Envs]
    /\ store \in Stores
    /\ proc = [r \in Reqs |-> "task1"]
    /\ args = [r \in Reqs |-> <<>>]
    /\ InitRequests

Next == \E r \in Reqs : Hello(r) \/ GetParameterReturn(r)

Spec == Init /\ [][Next]_vars

\* the resolver alone: one process, and one pair of arguments applied by
\* every call
InitResolver ==
    /\ env \in [{"task1"} -> ResolverEnvs]
    /\ store \in Stores
    /\ proc = [r \in Reqs |-> "task1"]
    /\ \E path \in Values, prefix \in Prefixes :
          args = [r \in Reqs |-> <<path, prefix>>]
    /\ InitRequests

NextResolver == \E r \in Reqs : SsmSecret(r) \/ GetParameterReturn(r)

SpecResolver == InitResolver /\ [][NextResolver]_vars

\* the resolver in two processes with their own environments, one store
InitTwoEnv ==
    /\ env \in [{"task1", "task2"} -> ResolverEnvs]
    /\ store \in Stores
    /\ proc = [r \in Reqs |-> IF r % 2 = 1 THEN "task1" ELSE "task2"]
    /\ \E path \in Values, prefix \in Prefixes :
          args = [r \in Reqs |-> <<path, prefix>>]
    /\ InitRequests

SpecTwoEnv == InitTwoEnv /\ [][NextResolver]_vars

\* ----------------------------------------------------------------- claims
\* v starts with p: exact match of the first Len(p) characters
StartsWith(v, p) == Len(p) <= Len(v) /\ \A i \in 1..Len(p) : v[i] = p[i]

\* v without its first Len(p) characters
StripPrefix(v, p) == [i \in 1..(Len(v) - Len(p)) |-> v[i + Len(p)]]

\* the store answers a lookup of name n with a value
Holds(st, n) == st.fault = "none" /\ n \in DOMAIN st.params

LookupNames(r) == [i \in 1..Len(lookups[r]) |-> lookups[r][i].Name]

Entered(r) == pc[r] # "ready"

EnvOf(r) == env[proc[r]]

\* r is a call of ssm_secret in a process where SECRET_SDK is set
ResolverCall(r) ==
    Entered(r) /\ fn[r] = "ssm_secret" /\ "SECRET_SDK" \in DOMAIN EnvOf(r)

\* C1: ssm_secret(v, p) with v not starting with p returns v unchanged and
\* issues no lookup, whatever the environment contains (stated here for the
\* environments in which SECRET_SDK is set).
C1_LiteralReturnedUnchanged ==
    \A r \in Reqs :
        (ResolverCall(r) /\ ~StartsWith(args[r][1], args[r][2]))
            => /\ pc[r] = "done"
               /\ lookups[r] = <<>>
               /\ outcome[r] = Returned(args[r][1])

\* C2: ssm_secret(p + n, p) issues exactly one lookup, of Name n with
\* decryption requested, and returns the value the store holds for n
\* (stated here for the environments in which SECRET_SDK is set).
C2_ReferenceLooksUpName ==
    \A r \in Reqs :
        (ResolverCall(r) /\ StartsWith(args[r][1], args[r][2]))
            => LET n == StripPrefix(args[r][1], args[r][2]) IN
               /\ Len(lookups[r]) = 1
               /\ lookups[r][1].Name = n
               /\ lookups[r][1].WithDecryption
               /\ (pc[r] = "done" /\ Holds(store, n))
                     => outcome[r] = Returned(store.params[n])

\* the resolution of value v under prefix p against store st
Resolution(st, v, p) ==
    IF StartsWith(v, p) THEN st.params[StripPrefix(v, p)] ELSE v

\* the lookup that resolving v under p needs, if any, succeeds
Resolvable(st, v, p) == StartsWith(v, p) => Holds(st, StripPrefix(v, p))

\* C3: with the three variables set and the needed lookup succeeding, GET /
\* returns "SDK decrypted: " + R + "Ssn-env decrypted: " + S, R the
\* resolution of SECRET_SDK under SECRET_SDK_PREFIX and S the value of SECRET.
C3_BodyIsTwoSections ==
    \A r \in Reqs :
        LET e == EnvOf(r) IN
        (pc[r] = "done" /\ fn[r] = "hello" /\ EnvNames \subseteq DOMAIN e
            /\ Resolvable(store, e["SECRET_SDK"], e["SECRET_SDK_PREFIX"]))
            => outcome[r] =
                 Returned(Section1Lit
                          \o Resolution(store, e["SECRET_SDK"], e["SECRET_SDK_PREFIX"])
                          \o Section2Lit \o e["SECRET"])

C3_Witness ==
    \E r \in Reqs :
        /\ pc[r] = "done" /\ fn[r] = "hello"
        /\ EnvNames \subseteq DOMAIN EnvOf(r)
        /\ Len(lookups[r]) = 1 /\ lookups[r][1].reply = "ok"
        /\ outcome[r].status = "returned"
        /\ EnvOf(r)["SECRET"] # <<>>

\* C4 as stated: whichever required variable is absent, GET / fails with
\* MissingConfiguration and has attempted no lookup before it fails.
C4_MissingFailsBeforeLookup ==
    \A r \in Reqs :
        (Entered(r) /\ fn[r] = "hello" /\ ~(EnvNames \subseteq DOMAIN EnvOf(r)))
            => /\ pc[r] = "done"
               /\ outcome[r] = Raised("MissingConfiguration")
               /\ lookups[r] = <<>>

\* C4 as amended: with SECRET_SDK or SECRET_SDK_PREFIX absent, GET / fails
\* with MissingConfiguration and no lookup is attempted.  With only SECRET
\* absent the request runs ssm_secret first: it issues the one lookup when
\* SECRET_SDK is a reference, and fails with LookupFailure when that lookup
\* fails and with MissingConfiguration otherwise.
C4_MissingConfiguration ==
    \A r \in Reqs :
        LET e == EnvOf(r) IN
        (Entered(r) /\ fn[r] = "hello") =>
            /\ ~({"SECRET_SDK", "SECRET_SDK_PREFIX"} \subseteq DOMAIN e)
                  => /\ pc[r] = "done"
                     /\ outcome[r] = Raised("MissingConfiguration")
                     /\ lookups[r] = <<>>
            /\ (DOMAIN e = {"SECRET_SDK", "SECRET_SDK_PREFIX"})
                  => LET ref == StartsWith(e["SECRET_SDK"], e["SECRET_SDK_PREFIX"]) IN
                     /\ Len(lookups[r]) = (IF ref THEN 1 ELSE 0)
                     /\ pc[r] = "done"
                           => outcome[r] =
                                IF Resolvable(store, e["SECRET_SDK"],
                                              e["SECRET_SDK_PREFIX"])
                                THEN Raised("MissingConfiguration")
                                ELSE Raised("LookupFailure")

C4_Witness ==
    \E r \in Reqs :
        /\ pc[r] = "done" /\ fn[r] = "hello"
        /\ DOMAIN EnvOf(r) = {"SECRET_SDK", "SECRET_SDK_PREFIX"}
        /\ Len(lookups[r]) = 1 /\ lookups[r][1].reply = "ok"
        /\ outcome[r] = Raised("MissingConfiguration")

\* C5: a failed lookup fails the request with LookupFailure: it is not
\* caught, not retried, and no body is returned in its place.
C5_LookupFailurePropagates ==
    \A r \in Reqs :
        (fn[r] = "hello" /\ \E i \in 1..Len(lookups[r]) : lookups[r][i].reply = "error")
            => /\ pc[r] = "done"
               /\ outcome[r] = Raised("LookupFailure")
               /\ Len(lookups[r]) = 1

C5_Witness ==
    \E r \in Reqs :
        /\ fn[r] = "hello" /\ pc[r] = "done"
        /\ Len(lookups[r]) = 1 /\ lookups[r][1].reply = "error"
        /\ EnvNames \subseteq DOMAIN EnvOf(r)
        /\ EnvOf(r)["SECRET_SDK"] # <<>>

\* C6: a GET / request issues at most one lookup, and has no outcome while
\* a lookup of its own is still unanswered.
C6_AtMostOneLookup ==
    \A r \in Reqs :
        fn[r] = "hello" =>
            /\ Len(lookups[r]) <= 1
            /\ outcome[r].status # "pending"
                  => \A i \in 1..Len(lookups[r]) : lookups[r][i].reply # "pending"
            /\ pc[r] = "get_parameter"
                  => outcome[r].status = "pending"

C6_Witness ==
    \E r1, r2 \in Reqs :
        /\ r1 # r2
        /\ fn[r1] = "hello" /\ pc[r1] = "done" /\ Len(lookups[r1]) = 1
        /\ fn[r2] = "hello" /\ pc[r2] = "get_parameter"
        /\ lookups[r2][1].reply = "pending"

\* C7: two calls ssm_secret(v, p) with the same v and p against the same
\* store, in processes whose environments differ in the value of SECRET_SDK,
\* issue the same lookup and give the same result.
C7_ResultIndependentOfEnv ==
    \A r1, r2 \in Reqs :
        (ResolverCall(r1) /\ ResolverCall(r2) /\ args[r1] = args[r2])
            => /\ LookupNames(r1) = LookupNames(r2)
               /\ (pc[r1] = "done" /\ pc[r2] = "done") => outcome[r1] = outcome[r2]

\* C8: calls of ssm_secret with identical (value, prefix) in one process,
\* with the environment and the store unchanged, all give the same output
\* or the same failure.
C8_Idempotent ==
    \A r1, r2 \in Reqs :
        (pc[r1] = "done" /\ pc[r2] = "done"
            /\ fn[r1] = "ssm_secret" /\ fn[r2] = "ssm_secret"
            /\ args[r1] = args[r2] /\ proc[r1] = proc[r2])
            => /\ outcome[r1] = outcome[r2]
               /\ LookupNames(r1) = LookupNames(r2)

C8_Witness ==
    \E r1, r2 \in Reqs :
        /\ r1 # r2
        /\ pc[r1] = "done" /\ pc[r2] = "done"
        /\ fn[r1] = "ssm_secret" /\ fn[r2] = "ssm_secret"
        /\ lookups[r1] # <<>> /\ lookups[r1][1].reply = "ok"
        /\ lookups[r2] # <<>> /\ lookups[r2][1].reply = "ok"

\* C9: no step of any request, successful or failed, changes the
\* environment of a process or the contents of the parameter store.
C9_NoSharedStateMutated == [][env' = env /\ store' = store]_vars

C9_Witness ==
    /\ \A r \in Reqs : pc[r] = "done" /\ fn[r] = "hello"
    /\ \E r \in Reqs : lookups[r] # <<>> /\ lookups[r][1].reply = "ok"
    /\ \E r \in Reqs : outcome[r].status = "returned"

\* what GET / gives in environment e against store st when it runs alone
HelloAlone(e, st) ==
    LET s == hello(e) IN
    IF s.kind = "call"
    THEN AfterGetParameter("hello", e, GetParameter(st, s.Name, s.flag))
    ELSE s.outcome

\* C10: under every interleaving of concurrent GET / requests, each request
\* ends with the outcome it would have had if run alone.
C10_OutcomeAsIfAlone ==
    \A r \in Reqs :
        (pc[r] = "done" /\ fn[r] = "hello") => outcome[r] = HelloAlone(EnvOf(r), store)

C10_Witness ==
    \E r1, r2 \in Reqs :
        /\ r1 # r2
        /\ fn[r1] = "hello" /\ fn[r2] = "hello"
        /\ pc[r1] = "done" /\ outcome[r1].status = "returned" /\ Len(lookups[r1]) = 1
        /\ pc[r2] = "done" /\ outcome[r2].status = "returned" /\ Len(lookups[r2]) = 1

====
